---- MODULE Spec2Model ----
(***************************************************************************)
(* Model of motion_regression_batch/generate_bunch_jobs.py: the Kubernetes *)
(* job batch generator (template substitution, Cartesian-product           *)
(* enumeration of variable options, file naming, submission and cleanup).  *)
(*                                                                         *)
(* Strings are sequences of one-character strings, so that str.replace,    *)
(* str(), "_".join and sorted() are computed character by character.       *)
(* A scalar value of the options file is [int |-> n] or [str |-> s].       *)
(* A dict is the sequence of its items in insertion order; an item is      *)
(* [name |-> key, value |-> v] (options: [name |-> key, values |-> list]). *)
(***************************************************************************)
EXTENDS Integers, Sequences, FiniteSets, TLC

VARIABLES
    pc,                     \* position in main() / in the function under call
    args,                   \* the command line and the files it names
    variable_options,       \* main: the loaded options mapping
    combinations,           \* main: result of create_variable_combinations
    i,                      \* generate_and_submit_batch: loop index (from 1)
    job_file_path,          \* generate_and_submit_batch: current file path
    generated_files,        \* generate_and_submit_batch: paths generated
    successful_submissions, \* generate_and_submit_batch: counter
    fs,                     \* the disk: output directory and its files
    events,                 \* effects on the outside world, in order
    stdout,                 \* what was printed, in order
    exit_status,            \* process exit status ("running" until it ends)
    template_content,       \* substitute_variables: argument
    variables,              \* substitute_variables: argument
    result                  \* substitute_variables: returned string

vars == <<pc, args, variable_options, combinations, i, job_file_path,
          generated_files, successful_submissions, fs, events, stdout,
          exit_status, template_content, variables, result>>

(***************************************************************************)
(* Bounds of the checked input spaces.                                     *)
(***************************************************************************)
\* longest option list drawn for create_variable_combinations
MaxListLen == 2
\* most pieces a drawn template is made of for substitute_variables
MaxPieces == 3

(***************************************************************************)
(* Strings and scalars.                                                    *)
(***************************************************************************)
IntVal(n) == [int |-> n]
StrVal(s) == [str |-> s]

DigitChar(d) ==
    CASE d = 0 -> "0" [] d = 1 -> "1" [] d = 2 -> "2" [] d = 3 -> "3"
      [] d = 4 -> "4" [] d = 5 -> "5" [] d = 6 -> "6" [] d = 7 -> "7"
      [] d = 8 -> "8" [] d = 9 -> "9"

RECURSIVE StrNat(_)
StrNat(n) ==
    IF n < 10 THEN <<DigitChar(n)>>
    ELSE StrNat(n \div 10) \o <<DigitChar(n % 10)>>

\* str(var_value) for an int or a str scalar
Str(v) ==
    IF "int" \in DOMAIN v
    THEN (IF v.int < 0 THEN <<"-">> \o StrNat(0 - v.int) ELSE StrNat(v.int))
    ELSE v.str

\* Unicode code point of the characters variable names are made of
CodePoint(c) ==
    CASE c = "_" -> 95 [] c = "a" -> 97 [] c = "b" -> 98 [] c = "c" -> 99

\* Python's str < str: lexicographic by code point, a proper prefix is less
RECURSIVE StrLess(_, _)
StrLess(s, t) ==
    IF t = <<>> THEN FALSE
    ELSE IF s = <<>> THEN TRUE
    ELSE IF Head(s) = Head(t) THEN StrLess(Tail(s), Tail(t))
    ELSE CodePoint(Head(s)) < CodePoint(Head(t))

\* sep.join(parts)
RECURSIVE Join(_, _)
Join(sep, parts) ==
    IF parts = <<>> THEN <<>>
    ELSE IF Len(parts) = 1 THEN parts[1]
    ELSE parts[1] \o sep \o Join(sep, Tail(parts))

\* whether old occurs in s starting at position p
OccursAt(s, old, p) ==
    /\ p >= 1
    /\ p + Len(old) - 1 <= Len(s)
    /\ SubSeq(s, p, p + Len(old) - 1) = old

Contains(s, old) == \E p \in 1..Len(s) : OccursAt(s, old, p)

\* only the first occurrence is replaced, as s.replace(old, new, 1) does
RECURSIVE ReplaceFirst(_, _, _)
ReplaceFirst(s, old, new) ==
    IF Len(s) < Len(old) THEN s
    ELSE IF OccursAt(s, old, 1)
         THEN new \o SubSeq(s, Len(old) + 1, Len(s))
         ELSE <<Head(s)>> \o ReplaceFirst(Tail(s), old, new)

\* s.replace(old, new) for a non-empty old: every non-overlapping occurrence,
\* found left to right, is replaced; replaced text is not scanned again
RECURSIVE Replace(_, _, _)
Replace(s, old, new) ==
    IF Len(s) < Len(old) THEN s
    ELSE IF OccursAt(s, old, 1)
         THEN new \o Replace(SubSeq(s, Len(old) + 1, Len(s)), old, new)
         ELSE <<Head(s)>> \o Replace(Tail(s), old, new)

(***************************************************************************)
(* KubernetesJobGenerator.substitute_variables                             *)
(***************************************************************************)
\* f"$({var_name})"
Placeholder(var_name) == <<"$", "(">> \o var_name \o <<")">>

\* one iteration of the loop over variables.items()
SubstituteOne(res, item) ==
    Replace(res, Placeholder(item.name), Str(item.value))

\* the loop from item k on, in mapping order
RECURSIVE SubstituteLoop(_, _, _)
SubstituteLoop(res, vs, k) ==
    IF k > Len(vs) THEN res
    ELSE SubstituteLoop(SubstituteOne(res, vs[k]), vs, k + 1)

\* the items visited last to first
ReversedItems(vs) == [k \in 1..Len(vs) |-> vs[Len(vs) + 1 - k]]

\* the order in which the loop visits the items: dict insertion order
ItemsInOrder(vs) == vs

substitute_variables(tc, vs) == SubstituteLoop(tc, ItemsInOrder(vs), 1)

(***************************************************************************)
(* create_variable_combinations                                            *)
(***************************************************************************)
\* zip(*var_values) in place of the product: the lists walked in step
ZipTuples(var_values) ==
    IF var_values = <<>> THEN <<>>
    ELSE LET n == CHOOSE m \in {Len(var_values[j]) : j \in 1..Len(var_values)} :
                     \A j \in 1..Len(var_values) : m <= Len(var_values[j])
         IN [p \in 1..n |-> [j \in 1..Len(var_values) |-> var_values[j][p]]]

\* the product with the leftmost list advancing on every step
RECURSIVE ProductLeftFastest(_)
ProductLeftFastest(var_values) ==
    IF var_values = <<>> THEN << <<>> >>
    ELSE LET h == Head(var_values)
             rest == ProductLeftFastest(Tail(var_values))
         IN [p \in 1..(Len(h) * Len(rest)) |->
                <<h[((p - 1) % Len(h)) + 1]>>
                    \o rest[((p - 1) \div Len(h)) + 1]]

\* itertools.product(*var_values) as a sequence of tuples: nested loops,
\* the rightmost list advancing on every step
RECURSIVE Product(_)
Product(var_values) ==
    IF var_values = <<>> THEN << <<>> >>
    ELSE LET h == Head(var_values)
             rest == Product(Tail(var_values))
         IN [p \in 1..(Len(h) * Len(rest)) |->
                <<h[((p - 1) \div Len(rest)) + 1]>>
                    \o rest[((p - 1) % Len(rest)) + 1]]

\* dict(zip(var_names, combination))
ZipDict(var_names, combination) ==
    [j \in 1..Len(var_names) |->
        [name |-> var_names[j], value |-> combination[j]]]

create_variable_combinations(opts) ==
    LET var_names == [j \in 1..Len(opts) |-> opts[j].name]
        var_values == [j \in 1..Len(opts) |-> opts[j].values]
        tuples == Product(var_values)
    IN [p \in 1..Len(tuples) |-> ZipDict(var_names, tuples[p])]

(***************************************************************************)
(* KubernetesJobGenerator.generate_job_file: the derived file name         *)
(***************************************************************************)
\* insert an item into a list of items sorted by key
RECURSIVE InsertSorted(_, _)
InsertSorted(item, sorted) ==
    IF sorted = <<>> THEN <<item>>
    ELSE IF StrLess(item.name, Head(sorted).name)
         THEN <<item>> \o sorted
         ELSE <<Head(sorted)>> \o InsertSorted(item, Tail(sorted))

\* sorted(variables.items()): the keys of a dict differ, so the key decides
RECURSIVE SortedItems(_)
SortedItems(vs) ==
    IF vs = <<>> THEN <<>>
    ELSE InsertSorted(Head(vs), SortedItems(Tail(vs)))

\* "_".join([f"{k}_{v}" for k, v in sorted(variables.items())])
VarStr(vs) ==
    LET items == SortedItems(vs)
    IN Join(<<"_">>,
            [k \in 1..Len(items) |->
                items[k].name \o <<"_">> \o Str(items[k].value)])

\* f"job_{var_str}.yaml" (job_name is None in every call of the program)
JobFileName(vs) ==
    <<"j", "o", "b", "_">> \o VarStr(vs) \o <<".", "y", "a", "m", "l">>

(***************************************************************************)
(* The disk: the output directory and the files in it (path -> content).   *)
(***************************************************************************)
NoFiles == [p \in {} |-> <<>>]

\* a write that leaves an existing file as it is
WriteFileKeepExisting(files, path, content) ==
    [p \in DOMAIN files \cup {path} |->
        IF p \in DOMAIN files THEN files[p] ELSE content]

\* open(job_file_path, 'w') and f.write(content): creates or truncates
WriteFile(files, path, content) ==
    [p \in DOMAIN files \cup {path} |->
        IF p = path THEN content ELSE files[p]]

\* os.remove(job_file_path)
RemoveFile(files, path) == [p \in DOMAIN files \ {path} |-> files[p]]

(***************************************************************************)
(* Inputs of a run of main().                                              *)
(***************************************************************************)
NameA == <<"a">>
NameB == <<"b">>

\* "x=$(a) y=$(b)"
TemplateXY ==
    <<"x", "=">> \o Placeholder(NameA) \o <<" ", "y", "=">> \o Placeholder(NameB)

Templates == {TemplateXY}

\* a: [1, 2], b: ["p", "q"]
OptScenario ==
    << [name |-> NameA, values |-> <<IntVal(1), IntVal(2)>>],
       [name |-> NameB, values |-> <<StrVal(<<"p">>), StrVal(<<"q">>)>>] >>

\* b: ["p"], a: [2, 1]  (keys not in sorted order)
OptUnsorted ==
    << [name |-> NameB, values |-> <<StrVal(<<"p">>)>>],
       [name |-> NameA, values |-> <<IntVal(2), IntVal(1)>>] >>

\* a: [1, "1"]  (two values with the same str())
OptSameStr ==
    << [name |-> NameA, values |-> <<IntVal(1), StrVal(<<"1">>)>>] >>

\* a: ["1_b_2", "1"], b: ["3", "2_b_3"]  (values holding the separator)
OptUnderscore ==
    << [name |-> NameA,
        values |-> <<StrVal(<<"1", "_", "b", "_", "2">>), StrVal(<<"1">>)>>],
       [name |-> NameB,
        values |-> <<StrVal(<<"3">>), StrVal(<<"2", "_", "b", "_", "3">>)>>] >>

\* a: [1, 2], b: []
OptEmptyList ==
    << [name |-> NameA, values |-> <<IntVal(1), IntVal(2)>>],
       [name |-> NameB, values |-> <<>>] >>

\* {}
OptNone == <<>>

\* c: [1, 2], b: ["p"], a: ["p", "q"]  (three variables, keys in reverse)
OptThree ==
    << [name |-> <<"c">>, values |-> <<IntVal(1), IntVal(2)>>],
       [name |-> NameB, values |-> <<StrVal(<<"p">>)>>],
       [name |-> NameA, values |-> <<StrVal(<<"p">>), StrVal(<<"q">>)>>] >>

OptionFiles ==
    { OptScenario, OptUnsorted, OptSameStr, OptUnderscore, OptEmptyList,
      OptNone, OptThree }

\* outcomes of subprocess.run(['kubectl', 'create', '-f', path], check=True)
KubectlOutcomes == {"ok", "nonzero_exit", "kubectl_not_found", "os_error"}

ArgsSpace ==
    [ template_readable : BOOLEAN,      \* open(template_file) succeeds
      template : Templates,             \* the template file's text
      variable_file_loadable : BOOLEAN, \* open + yaml.safe_load succeed
      variable_file : OptionFiles,      \* the mapping the file holds
      output_dir_exists : BOOLEAN,      \* before the run
      no_submit : BOOLEAN,
      cleanup : BOOLEAN,
      dry_run : BOOLEAN ]

Init ==
    /\ args \in ArgsSpace
    /\ pc = "load_variables"
    /\ variable_options = <<>>
    /\ combinations = <<>>
    /\ i = 0
    /\ job_file_path = <<>>
    /\ generated_files = <<>>
    /\ successful_submissions = 0
    /\ fs = [dir |-> args.output_dir_exists, files |-> NoFiles]
    /\ events = <<>>
    /\ stdout = <<>>
    /\ exit_status = "running"
    /\ template_content = <<>>
    /\ variables = <<>>
    /\ result = <<>>

(***************************************************************************)
(* main() and KubernetesJobGenerator.generate_and_submit_batch             *)
(***************************************************************************)
Say(line) == stdout' = Append(stdout, line)

Finish(status) == pc' = "done" /\ exit_status' = status

\* the flag not looked at
DryRunIgnored == FALSE

\* if args.dry_run
DryRunRequested == args.dry_run

\* submit_jobs=not args.no_submit
submit_jobs == ~args.no_submit

\* the submission outside the try: reached after a failed generation too
SubmitRegardless(written) == submit_jobs

\* the submission is inside the try, after generate_job_file and the append:
\* it is reached only when the file was written, and only `if submit_jobs`
SubmitFollows(written) == written /\ submit_jobs

\* os.remove outside the `if self.submit_job(...)`
CleanupRegardless(outcome) == args.cleanup

\* `if self.submit_job(...)` then `if cleanup`: os.remove is reached only
\* after a submission that returned True
CleanupFollows(outcome) == outcome = "ok" /\ args.cleanup

\* the except clause around the for loop: the loop is left
AbortAfterException(idx) == Len(combinations) + 1

\* the except clause is inside the for loop: the next iteration follows
NextAfterException(idx) == idx + 1

\* try: open + yaml.safe_load, except: print, sys.exit(1)
LoadVariableOptions ==
    /\ pc = "load_variables"
    /\ IF args.variable_file_loadable
       THEN /\ variable_options' = args.variable_file
            /\ pc' = "create_combinations"
            /\ UNCHANGED <<stdout, exit_status>>
       ELSE /\ Say([line |-> "error_loading_variables_file"])
            /\ Finish("exit_1")
            /\ UNCHANGED variable_options
    /\ UNCHANGED <<args, combinations, i, job_file_path, generated_files,
                   successful_submissions, fs, events, template_content,
                   variables, result>>

\* combinations = create_variable_combinations(variable_options)
CreateCombinations ==
    /\ pc = "create_combinations"
    /\ combinations' = create_variable_combinations(variable_options)
    /\ pc' = IF DryRunRequested THEN "dry_run" ELSE "init_generator"
    /\ UNCHANGED <<args, variable_options, i, job_file_path, generated_files,
                   successful_submissions, fs, events, stdout, exit_status,
                   template_content, variables, result>>

\* the dry-run branch: print the combinations and return
DryRun ==
    /\ pc = "dry_run"
    /\ stdout' = stdout
            \o << [line |-> "total_combinations", n |-> Len(combinations)] >>
            \o [k \in 1..Len(combinations) |->
                   [line |-> "combination", i |-> k,
                    variables |-> combinations[k]]]
    /\ Finish("exit_0")
    /\ UNCHANGED <<args, variable_options, combinations, i, job_file_path,
                   generated_files, successful_submissions, fs, events,
                   template_content, variables, result>>

\* KubernetesJobGenerator(...): output_dir.mkdir(exist_ok=True); then the
\* start of generate_and_submit_batch
InitGenerator ==
    /\ pc = "init_generator"
    /\ fs' = [fs EXCEPT !.dir = TRUE]
    /\ events' = Append(events, [op |-> "mkdir"])
    /\ generated_files' = <<>>
    /\ successful_submissions' = 0
    /\ i' = 1
    /\ Say([line |-> "generating", n |-> Len(combinations)])
    /\ pc' = "loop"
    /\ UNCHANGED <<args, variable_options, combinations, job_file_path,
                   exit_status, template_content, variables, result>>

\* one iteration up to the submission: generate_job_file and the append
GenerateJob ==
    /\ pc = "loop"
    /\ i <= Len(combinations)
    /\ \E writable \in BOOLEAN :
        LET vs == combinations[i]
            written == args.template_readable /\ writable
            content == substitute_variables(args.template, vs)
            path == JobFileName(vs)
            header == [line |-> "job", i |-> i, variables |-> vs]
        IN /\ IF written
              THEN /\ fs' = [fs EXCEPT !.files = WriteFile(@, path, content)]
                   /\ events' = Append(events,
                          [op |-> "write", i |-> i, path |-> path,
                           content |-> content])
                   /\ generated_files' = Append(generated_files, path)
                   /\ job_file_path' = path
                   /\ stdout' = stdout \o
                          <<header, [line |-> "generated", path |-> path]>>
              ELSE /\ stdout' = stdout \o
                          <<header, [line |-> "error_generating", i |-> i]>>
                   /\ UNCHANGED <<fs, events, generated_files, job_file_path>>
           /\ IF SubmitFollows(written)
              THEN pc' = "submit" /\ i' = i
              ELSE /\ pc' = "loop"
                   /\ i' = IF written THEN i + 1 ELSE NextAfterException(i)
    /\ UNCHANGED <<args, variable_options, combinations,
                   successful_submissions, exit_status, template_content,
                   variables, result>>

\* self.submit_job(job_file_path) and what the batch does with its result
SubmitJob ==
    /\ pc = "submit"
    /\ \E outcome \in KubectlOutcomes :
        /\ events' = Append(events,
               [op |-> "kubectl", i |-> i, path |-> job_file_path,
                outcome |-> outcome])
        /\ Say(CASE outcome = "ok" ->
                      [line |-> "submitted", path |-> job_file_path]
                 [] outcome = "nonzero_exit" ->
                      [line |-> "failed_to_submit", path |-> job_file_path]
                 [] outcome = "kubectl_not_found" ->
                      [line |-> "kubectl_not_found"]
                 [] outcome = "os_error" ->
                      [line |-> "error_generating", i |-> i])
        /\ successful_submissions' =
               IF outcome = "ok" THEN successful_submissions + 1
               ELSE successful_submissions
        /\ IF CleanupFollows(outcome)
           THEN pc' = "cleanup" /\ i' = i
           ELSE /\ pc' = "loop"
                /\ i' = IF outcome = "os_error" THEN NextAfterException(i)
                        ELSE i + 1
    /\ UNCHANGED <<args, variable_options, combinations, job_file_path,
                   generated_files, fs, exit_status, template_content,
                   variables, result>>

\* os.remove(job_file_path)
Cleanup ==
    /\ pc = "cleanup"
    /\ fs' = [fs EXCEPT !.files = RemoveFile(@, job_file_path)]
    /\ events' = Append(events,
           [op |-> "remove", i |-> i, path |-> job_file_path])
    /\ Say([line |-> "cleaned_up", path |-> job_file_path])
    /\ i' = i + 1
    /\ pc' = "loop"
    /\ UNCHANGED <<args, variable_options, combinations, job_file_path,
                   generated_files, successful_submissions, exit_status,
                   template_content, variables, result>>

\* the summary after the loop, the closing message and the return of main()
Summary ==
    /\ pc = "loop"
    /\ i > Len(combinations)
    /\ stdout' = stdout
          \o << [line |-> "total_generated", n |-> Len(generated_files)] >>
          \o (IF submit_jobs
              THEN << [line |-> "successfully_submitted",
                       n |-> successful_submissions],
                      [line |-> "failed_submissions",
                       n |-> Len(generated_files) - successful_submissions] >>
              ELSE <<>>)
          \o (IF ~args.no_submit /\ ~args.cleanup
              THEN << [line |-> "files_available_in_output_dir"] >>
              ELSE <<>>)
    /\ Finish("exit_0")
    /\ UNCHANGED <<args, variable_options, combinations, i, job_file_path,
                   generated_files, successful_submissions, fs, events,
                   template_content, variables, result>>

Next ==
    \/ LoadVariableOptions
    \/ CreateCombinations
    \/ DryRun
    \/ InitGenerator
    \/ GenerateJob
    \/ SubmitJob
    \/ Cleanup
    \/ Summary

Spec == Init /\ [][Next]_vars

(***************************************************************************)
(* create_variable_combinations on its own: every options mapping over the *)
(* names a, b with lists of at most MaxListLen values.                     *)
(***************************************************************************)
\* the state of a program that has not started main()
IdleArgs ==
    [ template_readable |-> TRUE, template |-> TemplateXY,
      variable_file_loadable |-> TRUE, variable_file |-> OptNone,
      output_dir_exists |-> FALSE,
      no_submit |-> TRUE, cleanup |-> FALSE, dry_run |-> FALSE ]

IdleMain ==
    /\ args = IdleArgs
    /\ i = 0
    /\ job_file_path = <<>>
    /\ generated_files = <<>>
    /\ successful_submissions = 0
    /\ fs = [dir |-> FALSE, files |-> NoFiles]
    /\ events = <<>>
    /\ stdout = <<>>
    /\ exit_status = "running"

SeqsUpTo(S, n) == UNION {[1..k -> S] : k \in 0..n}

NameOrders ==
    {<<>>, <<NameA>>, <<NameB>>, <<NameA, NameB>>, <<NameB, NameA>>}

CombValues == {IntVal(1), StrVal(<<"1">>), StrVal(<<"p">>)}

CombOptions ==
    UNION { { [j \in 1..Len(ns) |-> [name |-> ns[j], values |-> f[j]]] :
                f \in [1..Len(ns) -> SeqsUpTo(CombValues, MaxListLen)] } :
            ns \in NameOrders }

CombInit ==
    /\ IdleMain
    /\ pc = "call_create_variable_combinations"
    /\ variable_options \in CombOptions
    /\ combinations = <<>>
    /\ template_content = <<>>
    /\ variables = <<>>
    /\ result = <<>>

CallCreateCombinations ==
    /\ pc = "call_create_variable_combinations"
    /\ combinations' = create_variable_combinations(variable_options)
    /\ pc' = "returned"
    /\ UNCHANGED <<args, variable_options, i, job_file_path, generated_files,
                   successful_submissions, fs, events, stdout, exit_status,
                   template_content, variables, result>>

CombSpec == CombInit /\ [][CallCreateCombinations]_vars

(***************************************************************************)
(* substitute_variables on its own: templates of at most MaxPieces pieces, *)
(* combinations over the names a, b.                                       *)
(***************************************************************************)
Pieces ==
    { Placeholder(NameA), Placeholder(NameB), <<"x">>,
      <<"$", "(">>, <<")">>, <<"(", "a", ")">> }

SubstTemplates == { Join(<<>>, ps) : ps \in SeqsUpTo(Pieces, MaxPieces) }

SubstValues ==
    { IntVal(1), StrVal(<<"a">>), StrVal(<<"$">>),
      StrVal(Placeholder(NameA)), StrVal(Placeholder(NameB)) }

SubstCombinations ==
    UNION { { [j \in 1..Len(ns) |-> [name |-> ns[j], value |-> f[j]]] :
                f \in [1..Len(ns) -> SubstValues] } :
            ns \in NameOrders }

SubstInit ==
    /\ IdleMain
    /\ pc = "call_substitute_variables"
    /\ variable_options = <<>>
    /\ combinations = <<>>
    /\ template_content \in SubstTemplates
    /\ variables \in SubstCombinations
    /\ result = <<>>

CallSubstitute ==
    /\ pc = "call_substitute_variables"
    /\ result' = substitute_variables(template_content, variables)
    /\ pc' = "returned"
    /\ UNCHANGED <<args, variable_options, combinations, i, job_file_path,
                   generated_files, successful_submissions, fs, events,
                   stdout, exit_status, template_content, variables>>

SubstSpec == SubstInit /\ [][CallSubstitute]_vars

(***************************************************************************)
(* Properties of create_variable_combinations (under CombSpec).            *)
(***************************************************************************)
\* n1 * n2 * ... * nk for the option lists from position j on
RECURSIVE SizesProduct(_, _)
SizesProduct(opts, j) ==
    IF j > Len(opts) THEN 1
    ELSE Len(opts[j].values) * SizesProduct(opts, j + 1)

\* every way of choosing one value per variable name
Choices(opts) ==
    { [j \in 1..Len(opts) |-> [name |-> opts[j].name, value |-> f[j]]] :
        f \in { g \in [1..Len(opts) ->
                         UNION {{opts[j].values[k] : k \in 1..Len(opts[j].values)}
                                : j \in 1..Len(opts)}] :
                  \A j \in 1..Len(opts) :
                     \E k \in 1..Len(opts[j].values) : g[j] = opts[j].values[k] } }

NoRepeatedValue(opts) ==
    \A j \in 1..Len(opts) :
        \A k, l \in 1..Len(opts[j].values) :
            k # l => opts[j].values[k] # opts[j].values[l]

PairwiseDistinct(seq) ==
    \A p, q \in 1..Len(seq) : p # q => seq[p] # seq[q]

CountAndChoice ==
    /\ Len(combinations) = SizesProduct(variable_options, 1)
    /\ {combinations[p] : p \in 1..Len(combinations)} = Choices(variable_options)
    /\ (\E j \in 1..Len(variable_options) : variable_options[j].values = <<>>)
           => combinations = <<>>

\* C1 as stated: create_variable_combinations returns exactly n1*...*nk
\* combinations, each choosing one value per variable name, each unique as a
\* mapping, and none when some list is empty.
C1_UniqueCombinations ==
    pc = "returned" => (CountAndChoice /\ PairwiseDistinct(combinations))

\* C1 as amended: exactly n1*...*nk combinations, each choosing one value per
\* variable name, together covering every choice, none when some list is
\* empty; they are pairwise distinct as mappings when no option list repeats
\* a value, and a non-empty result for a list that repeats a value holds
\* equal mappings.
C1_CountAndUniqueWithoutRepeats ==
    pc = "returned" =>
        /\ CountAndChoice
        /\ NoRepeatedValue(variable_options) => PairwiseDistinct(combinations)
        /\ (combinations # <<>> /\ ~NoRepeatedValue(variable_options))
               => ~PairwiseDistinct(combinations)

C1_Witness ==
    /\ pc = "returned"
    /\ Len(variable_options) = 2
    /\ Len(combinations) = 4
    /\ NoRepeatedValue(variable_options)

(***************************************************************************)
(* Properties of substitute_variables (under SubstSpec).                   *)
(***************************************************************************)
\* the value of variable v brings the text $(w) into the template
Introduces(v, w) ==
    /\ v # w
    /\ Contains(template_content, Placeholder(variables[v].name))
    /\ Contains(Str(variables[v].value), Placeholder(variables[w].name))

\* C5 as stated: text $(other) introduced by a variable's value appears
\* unchanged in the result, whatever the order of the variables.
C5_IntroducedTextNeverSubstituted ==
    pc = "returned" =>
        \A v, w \in 1..Len(variables) :
            Introduces(v, w) => Contains(result, Placeholder(variables[w].name))

\* C5 as amended: text $(other) introduced by a variable's value stays in the
\* result when other comes before that variable in the mapping order; when
\* other comes after it, the later pass replaces the introduced text by
\* other's value.
C5_IntroducedTextKeptForEarlierOnly ==
    pc = "returned" =>
        /\ \A v, w \in 1..Len(variables) :
              (Introduces(v, w) /\ w < v)
                  => Contains(result, Placeholder(variables[w].name))
        /\ \A v, w \in 1..Len(variables) :
              ( /\ v < w
                /\ template_content = Placeholder(variables[v].name)
                /\ Str(variables[v].value) = Placeholder(variables[w].name) )
                  => result = Str(variables[w].value)

C5_Witness ==
    /\ pc = "returned"
    /\ template_content = Placeholder(NameA)
    /\ variables = << [name |-> NameB, value |-> IntVal(1)],
                      [name |-> NameA, value |-> StrVal(Placeholder(NameB))] >>
    /\ result = Placeholder(NameB)

\* every "$" of the template starts the placeholder of a supplied variable
OnlySuppliedPlaceholders ==
    \A p \in 1..Len(template_content) :
        template_content[p] = "$" =>
            \E k \in 1..Len(variables) :
                OccursAt(template_content, Placeholder(variables[k].name), p)

NoSuppliedPlaceholderLeft ==
    \A k \in 1..Len(variables) :
        ~Contains(result, Placeholder(variables[k].name))

DollarFreeValues ==
    \A k \in 1..Len(variables) :
        \A p \in 1..Len(Str(variables[k].value)) :
            Str(variables[k].value)[p] # "$"

\* C6 as stated: for a template whose only placeholders are those of the
\* supplied variables, the result holds no $(name) token of a supplied
\* variable, for every combination of values.
C6_NoPlaceholderLeft ==
    (pc = "returned" /\ OnlySuppliedPlaceholders) => NoSuppliedPlaceholderLeft

\* C6 as amended: for a template in which every "$" starts the placeholder
\* of a supplied variable, and values whose string form holds no "$", the
\* result holds no $(name) token of a supplied variable.
C6_NoPlaceholderLeftForDollarFreeValues ==
    (pc = "returned" /\ OnlySuppliedPlaceholders /\ DollarFreeValues)
        => NoSuppliedPlaceholderLeft

C6_Witness ==
    /\ pc = "returned"
    /\ template_content = Placeholder(NameA) \o <<"x">> \o Placeholder(NameA)
    /\ variables = << [name |-> NameA, value |-> IntVal(1)],
                      [name |-> NameB, value |-> StrVal(<<"a">>)] >>
    /\ result = <<"1", "x", "1">>

(***************************************************************************)
(* Properties of a run of main() (under Spec).                             *)
(***************************************************************************)
\* the batch ran to its end
BatchDone == pc = "done" /\ args.variable_file_loadable /\ ~args.dry_run

Written(k) == \E p \in 1..Len(events) : events[p].op = "write" /\ events[p].i = k

SubmitAttempted(k) ==
    \E p \in 1..Len(events) : events[p].op = "kubectl" /\ events[p].i = k

SubmittedOk(k) ==
    \E p \in 1..Len(events) :
        events[p].op = "kubectl" /\ events[p].i = k /\ events[p].outcome = "ok"

Removed(k) == \E p \in 1..Len(events) : events[p].op = "remove" /\ events[p].i = k

OnDisk(path) == path \in DOMAIN fs.files

\* the last combination that wrote the file of combination k
LastWriter(k) ==
    CHOOSE l \in 1..Len(combinations) :
        /\ Written(l)
        /\ JobFileName(combinations[l]) = JobFileName(combinations[k])
        /\ \A m \in 1..Len(combinations) :
              (Written(m) /\ JobFileName(combinations[m])
                                 = JobFileName(combinations[k])) => m <= l

DeletedIffSubmittedAndCleanup(k) ==
    Removed(k) <=> (SubmitAttempted(k) /\ SubmittedOk(k) /\ args.cleanup)

\* C2 as stated: a generated document is deleted iff its submission was
\* attempted, succeeded and cleanup was requested; in every other case its
\* file is on disk at the end of generate_and_submit_batch.
C2_DeletedIffSubmittedElseOnDisk ==
    BatchDone =>
        \A k \in 1..Len(combinations) :
            Written(k) =>
                /\ DeletedIffSubmittedAndCleanup(k)
                /\ ~Removed(k) => OnDisk(JobFileName(combinations[k]))

\* C2 as amended: a generated document is deleted iff its submission was
\* attempted, succeeded and cleanup was requested; its file path is on disk
\* at the end iff the last combination that wrote that path was not deleted
\* (a later combination with the same derived name overwrites the file and
\* may delete it).
C2_DeletedIffSubmittedLastWriterDecides ==
    BatchDone =>
        \A k \in 1..Len(combinations) :
            Written(k) =>
                /\ DeletedIffSubmittedAndCleanup(k)
                /\ OnDisk(JobFileName(combinations[k])) <=> ~Removed(LastWriter(k))

C2_Witness ==
    /\ BatchDone
    /\ args.cleanup
    /\ \E k, l \in 1..Len(combinations) :
          /\ Written(k) /\ SubmittedOk(k) /\ Removed(k)
          /\ ~OnDisk(JobFileName(combinations[k]))
          /\ Written(l) /\ SubmitAttempted(l) /\ ~SubmittedOk(l)
          /\ OnDisk(JobFileName(combinations[l]))

JobHeaders == SelectSeq(stdout, LAMBDA l : l.line = "job")

Reported(what) ==
    LET ls == SelectSeq(stdout, LAMBDA l : l.line = what) IN ls[1].n

CountOf(S) == Cardinality(S)

EveryCombinationOnceInOrder ==
    JobHeaders = [k \in 1..Len(combinations) |->
                     [line |-> "job", i |-> k, variables |-> combinations[k]]]

ReportAddsUp ==
    /\ Reported("total_generated")
          = CountOf({k \in 1..Len(combinations) : Written(k)})
    /\ submit_jobs =>
          /\ Reported("successfully_submitted")
                = CountOf({k \in 1..Len(combinations) : SubmittedOk(k)})
          /\ Reported("failed_submissions")
                = CountOf({k \in 1..Len(combinations) :
                              Written(k) /\ ~SubmittedOk(k)})
          /\ Reported("successfully_submitted") + Reported("failed_submissions")
                = Len(generated_files)

\* the scheduling of a sequential program: the next statement always runs,
\* and every call of the submission tool returns
FairSpec == Spec /\ WF_vars(Next)

\* C3: a generation error or a submission failure never aborts the batch:
\* every combination is attempted exactly once, in order, the batch
\* terminates, and the reported successes and failures add up to the number
\* of generated files.
C3_BatchNeverAborted ==
    /\ [](BatchDone => (EveryCombinationOnceInOrder /\ ReportAddsUp))
    /\ <>(pc = "done")

C3_Witness ==
    /\ BatchDone
    /\ Len(combinations) = 4
    /\ ~Written(1)
    /\ SubmitAttempted(2) /\ ~SubmittedOk(2)
    /\ SubmittedOk(4)
    /\ exit_status = "exit_0"

\* C4: a missing or unreadable template file is fatal: no combination is
\* processed, no file is written, nothing is submitted, and the process
\* ends with a non-zero status.
C4_MissingTemplateIsFatal ==
    (args.variable_file_loadable /\ ~args.dry_run /\ ~args.template_readable)
        => /\ JobHeaders = <<>>
           /\ \A p \in 1..Len(events) : events[p].op \notin {"write", "kubectl"}
           /\ pc = "done" => exit_status = "exit_1"

\* C7: dry-run mode lists every combination of the Cartesian product and
\* leaves the outside world alone: the output directory is not created, no
\* file is written or deleted, the submission tool is not invoked,
\* whatever --no-submit and --cleanup say.
C7_DryRunHasNoEffect ==
    args.dry_run =>
        /\ fs = [dir |-> args.output_dir_exists, files |-> NoFiles]
        /\ events = <<>>
        /\ (pc = "done" /\ args.variable_file_loadable) =>
              /\ SelectSeq(stdout, LAMBDA l : l.line = "combination")
                    = [k \in 1..Len(combinations) |->
                          [line |-> "combination", i |-> k,
                           variables |-> combinations[k]]]
              /\ {combinations[k] : k \in 1..Len(combinations)}
                    = Choices(args.variable_file)
              /\ Len(combinations) = SizesProduct(args.variable_file, 1)
              /\ exit_status = "exit_0"

C7_Witness ==
    /\ pc = "done"
    /\ args.dry_run /\ args.cleanup /\ ~args.no_submit
    /\ ~args.output_dir_exists
    /\ args.variable_file = OptScenario
    /\ Len(SelectSeq(stdout, LAMBDA l : l.line = "combination")) = 4

\* the files the batch generated are the files on disk
AllGeneratedKept ==
    /\ BatchDone
    /\ ~args.cleanup
    /\ \A k \in 1..Len(combinations) : Written(k)

\* C8 as stated: after a batch without cleanup in which every generation
\* succeeds, the output directory holds as many files as there are
\* combinations: two different combinations never get the same derived
\* file name and never overwrite each other.
C8_OneFilePerCombination ==
    AllGeneratedKept =>
        /\ Cardinality(DOMAIN fs.files) = Len(combinations)
        /\ \A k, l \in 1..Len(combinations) :
              combinations[k] # combinations[l]
                  => JobFileName(combinations[k]) # JobFileName(combinations[l])

\* C8 as amended: after a batch without cleanup in which every generation
\* succeeds, the output directory holds one file per distinct derived name
\* (job_ + key_value pairs sorted by key, joined with underscores + .yaml);
\* combinations whose sorted key_value strings are equal share one file,
\* which holds the document of the last of them; combinations whose strings
\* differ get different files.
C8_OneFilePerDerivedName ==
    AllGeneratedKept =>
        /\ DOMAIN fs.files
              = {JobFileName(combinations[k]) : k \in 1..Len(combinations)}
        /\ Cardinality(DOMAIN fs.files)
              = Cardinality({VarStr(combinations[k]) : k \in 1..Len(combinations)})
        /\ \A k \in 1..Len(combinations) :
              fs.files[JobFileName(combinations[k])]
                  = substitute_variables(args.template,
                                         combinations[LastWriter(k)])
        /\ \A k, l \in 1..Len(combinations) :
              VarStr(combinations[k]) # VarStr(combinations[l])
                  => JobFileName(combinations[k]) # JobFileName(combinations[l])

C8_Witness ==
    /\ AllGeneratedKept
    /\ args.variable_file = OptUnderscore
    /\ Cardinality(DOMAIN fs.files) = 3
    /\ combinations[1] # combinations[4]
    /\ fs.files[JobFileName(combinations[1])]
          = substitute_variables(args.template, combinations[4])

WriteEvents == SelectSeq(events, LAMBDA e : e.op = "write")

\* position, in option list j, of the value that combination p takes:
\* the rightmost list advances on every step
ValueIndex(opts, p, j) ==
    (((p - 1) \div SizesProduct(opts, j + 1)) % Len(opts[j].values)) + 1

ProductOrder(opts, combos) ==
    /\ Len(combos) = SizesProduct(opts, 1)
    /\ \A p \in 1..Len(combos) :
          combos[p] = [j \in 1..Len(opts) |->
                          [name |-> opts[j].name,
                           value |-> opts[j].values[ValueIndex(opts, p, j)]]]

\* C9: combinations are enumerated in product order over the option lists
\* as given, the rightmost variable varying fastest; documents are generated
\* in that order, so "x=$(a) y=$(b)" with a: [1, 2], b: ["p", "q"] yields
\* "x=1 y=p", "x=1 y=q", "x=2 y=p", "x=2 y=q" in this sequence.
C9_ProductOrder ==
    (args.variable_file_loadable /\ pc \notin {"load_variables", "create_combinations"})
    =>  /\ ProductOrder(args.variable_file, combinations)
        /\ \A q \in 1..Len(WriteEvents) :
              /\ q > 1 => WriteEvents[q - 1].i < WriteEvents[q].i
              /\ WriteEvents[q].content
                    = substitute_variables(args.template,
                                           combinations[WriteEvents[q].i])
        /\ ( /\ BatchDone
             /\ args.variable_file = OptScenario
             /\ args.template = TemplateXY
             /\ Len(WriteEvents) = 4 )
           => [q \in 1..4 |-> WriteEvents[q].content]
                 = << <<"x", "=", "1", " ", "y", "=", "p">>,
                      <<"x", "=", "1", " ", "y", "=", "q">>,
                      <<"x", "=", "2", " ", "y", "=", "p">>,
                      <<"x", "=", "2", " ", "y", "=", "q">> >>

C9_Witness ==
    /\ BatchDone
    /\ args.variable_file = OptScenario
    /\ args.template = TemplateXY
    /\ Len(WriteEvents) = 4

BatchEvents == SelectSeq(events, LAMBDA e : e.op # "mkdir")

OpRank(op) ==
    CASE op = "write" -> 1 [] op = "kubectl" -> 2 [] op = "remove" -> 3

\* C10: the batch is strictly sequential per combination: the file of
\* combination i is written before its submission starts, its submission
\* and its cleanup are over before the file of combination i+1 is written,
\* and no submission starts for a combination whose generation failed.
C10_StrictlySequential ==
    /\ \A p, q \in 1..Len(BatchEvents) :
          p < q =>
              \/ BatchEvents[p].i < BatchEvents[q].i
              \/ /\ BatchEvents[p].i = BatchEvents[q].i
                 /\ OpRank(BatchEvents[p].op) < OpRank(BatchEvents[q].op)
    /\ \A q \in 1..Len(BatchEvents) :
          BatchEvents[q].op = "kubectl" =>
              \E p \in 1..(q - 1) :
                  /\ BatchEvents[p].op = "write"
                  /\ BatchEvents[p].i = BatchEvents[q].i
                  /\ BatchEvents[p].path = BatchEvents[q].path
    /\ pc = "submit" => (Written(i) /\ OnDisk(job_file_path))
    /\ pc = "cleanup" => SubmittedOk(i)

C10_Witness ==
    /\ Len(BatchEvents) >= 5
    /\ [q \in 1..5 |-> <<BatchEvents[q].op, BatchEvents[q].i>>]
          = << <<"write", 1>>, <<"kubectl", 1>>, <<"remove", 1>>,
               <<"write", 3>>, <<"kubectl", 3>> >>

====
